---- MODULE Spec2Model ----
(***************************************************************************)
(* A model of the SQL Server MCP gateway (src/sql_mcp_server.py): the      *)
(* statement validator, the four entry points that accept caller SQL and   *)
(* the scoped database connection they run on.                             *)
(*                                                                         *)
(* Statement text is a sequence of one-character strings, so that          *)
(* str.upper(), str.strip(), str.startswith() and re.search() are computed *)
(* character by character as the interpreter computes them.                *)
(***************************************************************************)
EXTENDS Naturals, Integers, Sequences, FiniteSets, TLC

VARIABLES
    v_class,      \* validator runs: the class of statement text being composed
    v_atoms,      \* validator runs: the statement text, as a sequence of fragments
    v_verdict,    \* validator runs: "pending", then "accepted" or "rejected"
    Config,       \* class Config: MAX_ROWS, and whether a connection string can be built
    req,          \* per request slot: the running tool call and its local variables
    conns,        \* per connection id: the pyodbc connection opened under that id
    fs,           \* the export directory and the destination file
    calls         \* number of tool calls started so far

v_vars == <<v_class, v_atoms, v_verdict>>
p_vars == <<Config, req, conns, fs, calls>>
vars == <<v_class, v_atoms, v_verdict, Config, req, conns, fs, calls>>

(***************************************************************************)
(* Characters and the string methods of the source.                        *)
(***************************************************************************)
LowerCase == <<"a","b","c","d","e","f","g","h","i","j","k","l","m",
               "n","o","p","q","r","s","t","u","v","w","x","y","z">>
UpperCase == <<"A","B","C","D","E","F","G","H","I","J","K","L","M",
               "N","O","P","Q","R","S","T","U","V","W","X","Y","Z">>
Digits == {"0","1","2","3","4","5","6","7","8","9"}

Range(s) == {s[i] : i \in 1..Len(s)}

LowerChars == Range(LowerCase)
UpperOf == [c \in LowerChars |->
               UpperCase[CHOOSE i \in 1..Len(LowerCase) : LowerCase[i] = c]]

\* str.upper() on one character: ASCII lower-case letters are mapped, the rest kept
UpperChar(c) == IF c \in LowerChars THEN UpperOf[c] ELSE c

\* str.upper()
Upper(s) == [i \in 1..Len(s) |-> UpperChar(s[i])]

SpaceChars == {" ", "\n", "\t", "\r"}
\* two characters outside ASCII, each written as one element of a text: the letter
\* capital I with dot above, and the combining dot above
I_DOT == "U+0130"
COMBINING_DOT == "U+0307"

WordChars == Range(LowerCase) \cup Range(UpperCase) \cup Digits \cup {"_", I_DOT}

\* the characters str.strip() removes and the regex class \s matches
IsSpace(c) == c \in SpaceChars

\* the regex class \w
IsWord(c) == c \in WordChars

\* str.strip(): the text without its leading and trailing white space
Strip(s) ==
    LET keep == {i \in 1..Len(s) : ~IsSpace(s[i])}
    IN  IF keep = {} THEN <<>>
        ELSE LET lo == CHOOSE i \in keep : \A j \in keep : i <= j
                 hi == CHOOSE i \in keep : \A j \in keep : j <= i
             IN  SubSeq(s, lo, hi)

\* str.startswith(prefix)
StartsWith(s, prefix) ==
    /\ Len(prefix) <= Len(s)
    /\ \A i \in 1..Len(prefix) : s[i] = prefix[i]

(***************************************************************************)
(* Regular expressions, as far as validate_sql_query uses them.  A pattern *)
(* is a sequence of elements: a literal character, \b, \s+, \s* or .*      *)
(* (where . matches every character but the line feed: no re.DOTALL).      *)
(***************************************************************************)
Lit(chars) == [i \in 1..Len(chars) |-> [kind |-> "lit", ch |-> chars[i]]]
WordB  == <<[kind |-> "b",  ch |-> ""]>>
Space1 == <<[kind |-> "s+", ch |-> ""]>>
Space0 == <<[kind |-> "s*", ch |-> ""]>>
DotStar == <<[kind |-> ".*", ch |-> ""]>>

\* \b at position i (between s[i-1] and s[i])
WordBoundaryAt(s, i) ==
    LET before == i > 1 /\ i - 1 <= Len(s) /\ IsWord(s[i - 1])
        after  == i <= Len(s) /\ IsWord(s[i])
    IN  before # after

\* the pattern elements k.. match s from position i on
RECURSIVE MatchFrom(_, _, _, _)
MatchFrom(pat, k, s, i) ==
    IF k > Len(pat) THEN TRUE
    ELSE LET e == pat[k] IN
         CASE e.kind = "lit" ->
                  /\ i <= Len(s)
                  /\ s[i] = e.ch
                  /\ MatchFrom(pat, k + 1, s, i + 1)
           [] e.kind = "b" ->
                  /\ WordBoundaryAt(s, i)
                  /\ MatchFrom(pat, k + 1, s, i)
           [] e.kind = "s+" ->
                  \E j \in (i + 1)..(Len(s) + 1) :
                      /\ \A m \in i..(j - 1) : IsSpace(s[m])
                      /\ MatchFrom(pat, k + 1, s, j)
           [] e.kind = "s*" ->
                  \E j \in i..(Len(s) + 1) :
                      /\ \A m \in i..(j - 1) : IsSpace(s[m])
                      /\ MatchFrom(pat, k + 1, s, j)
           [] e.kind = ".*" ->
                  \E j \in i..(Len(s) + 1) :
                      /\ \A m \in i..(j - 1) : s[m] # "\n"
                      /\ MatchFrom(pat, k + 1, s, j)

\* re.match in place of re.search: the pattern is tried at the start of s only
re_match(pat, s) == MatchFrom(pat, 1, s, 1)

\* re.search(pattern, s) is not None
re_search(pat, s) == \E i \in 1..(Len(s) + 1) : MatchFrom(pat, 1, s, i)

(***************************************************************************)
(* validate_sql_query                                                      *)
(***************************************************************************)
Where1Eq1 == Lit(<<"W","H","E","R","E">>) \o Space1 \o Lit(<<"1">>) \o Space0
             \o Lit(<<"=">>) \o Space0 \o Lit(<<"1">>)

dangerous_patterns == <<
    \* r'\bDROP\s+DATABASE\b'
    WordB \o Lit(<<"D","R","O","P">>) \o Space1
          \o Lit(<<"D","A","T","A","B","A","S","E">>) \o WordB,
    \* r'\bDROP\s+TABLE\b'
    WordB \o Lit(<<"D","R","O","P">>) \o Space1
          \o Lit(<<"T","A","B","L","E">>) \o WordB,
    \* r'\bTRUNCATE\b'
    WordB \o Lit(<<"T","R","U","N","C","A","T","E">>) \o WordB,
    \* r'\bDELETE\s+FROM\b.*WHERE\s+1\s*=\s*1'
    WordB \o Lit(<<"D","E","L","E","T","E">>) \o Space1
          \o Lit(<<"F","R","O","M">>) \o WordB \o DotStar \o Where1Eq1,
    \* r'\bUPDATE\b.*WHERE\s+1\s*=\s*1'
    WordB \o Lit(<<"U","P","D","A","T","E">>) \o WordB \o DotStar \o Where1Eq1,
    \* r';\s*DROP\b'
    Lit(<<";">>) \o Space0 \o Lit(<<"D","R","O","P">>) \o WordB,
    \* r'--'
    Lit(<<"-","-">>),
    \* r'xp_cmdshell'
    Lit(<<"x","p","_","c","m","d","s","h","e","l","l">>),
    \* r'sp_executesql'
    Lit(<<"s","p","_","e","x","e","c","u","t","e","s","q","l">> ) >>

\* the text is trimmed but searched in the letter case it came in
sql_upper_NoUpper(sql) == Strip(sql)

\* the text the patterns are searched in: sql.upper().strip()
sql_upper(sql) == Strip(Upper(sql))

\* the deny-list without its comment-marker rule
validate_NoCommentRule(sql) ==
    ~\E k \in 1..Len(dangerous_patterns) :
        /\ dangerous_patterns[k] # Lit(<<"-","-">>)
        /\ re_search(dangerous_patterns[k], sql_upper(sql))

\* TRUE when no pattern is found (the statement is accepted), FALSE when one is
validate_sql_query(sql) ==
    ~\E k \in 1..Len(dangerous_patterns) : re_search(dangerous_patterns[k], sql_upper(sql))

(***************************************************************************)
(* Statement texts for the validator runs.  A text is the concatenation of *)
(* up to MaxAtoms fragments; each class of texts has the fragments that    *)
(* the deny-list rules of that class read, in mixed letter case, together  *)
(* with white space, a line feed and identifier characters.                *)
(***************************************************************************)
MaxAtoms == 4

AtomText(a) ==
    CASE a = "Drop"          -> <<"D","r","o","p">>
      [] a = "database"      -> <<"d","a","t","a","b","a","s","e">>
      [] a = "TABLE"         -> <<"T","A","B","L","E">>
      [] a = "Truncate"      -> <<"T","r","u","n","c","a","t","e">>
      [] a = "select"        -> <<"s","e","l","e","c","t">>
      [] a = "delete from"   -> <<"d","e","l","e","t","e"," ","f","r","o","m">>
      [] a = "Update"        -> <<"U","p","d","a","t","e">>
      [] a = "where 1=1"     -> <<"w","h","e","r","e"," ","1","=","1">>
      [] a = "xp_cmdshell"   -> <<"x","p","_","c","m","d","s","h","e","l","l">>
      [] a = "XP_CMDSHELL"   -> <<"X","P","_","C","M","D","S","H","E","L","L">>
      [] a = "Sp_ExecuteSql" -> <<"S","p","_","E","x","e","c","u","t","e","S","q","l">>
      [] a = "exec"          -> <<"e","x","e","c">>
      [] a = "select '"      -> <<"s","e","l","e","c","t"," ","'">>
      [] OTHER               -> <<a>>     \* a one-character fragment

ClassAtoms(c) ==
    CASE c = "drop"    -> {"Drop", "database", "TABLE", "Truncate", "select", " ", "\n", ";"}
      [] c = "blanket" -> {"delete from", "Update", "where 1=1", "t", "_", " ", "\n"}
      [] c = "proc"    -> {"xp_cmdshell", "XP_CMDSHELL", "Sp_ExecuteSql", "exec", " ", "'"}
      [] c = "comment" -> {"select '", "-", "'", " ", "\n", "t"}
      [] c = "case"    -> {"Drop", "TABLE", "Update", "where 1=1", "xp_cmdshell", " ",
                           I_DOT}

Classes == {"drop", "blanket", "proc", "comment"}

RECURSIVE Flatten(_)
Flatten(atoms) ==
    IF atoms = <<>> THEN <<>> ELSE AtomText(Head(atoms)) \o Flatten(Tail(atoms))

IsSpaceAtom(a) == a \in {" ", "\n"}

\* fragments i..j stand as words of their own: no word character touches them
StandsAlone(atoms, i, j) ==
    /\ i = 1 \/ ~IsWord(AtomText(atoms[i - 1])[Len(AtomText(atoms[i - 1]))])
    /\ j = Len(atoms) \/ ~IsWord(AtomText(atoms[j + 1])[1])

\* the text holds DROP DATABASE or DROP TABLE (white space between the two words) or
\* TRUNCATE, as words
HasDropOrTruncate(atoms) ==
    \/ \E i \in 1..Len(atoms) : \E j \in (i + 2)..Len(atoms) :
           /\ atoms[i] = "Drop"
           /\ atoms[j] \in {"database", "TABLE"}
           /\ \A m \in (i + 1)..(j - 1) : IsSpaceAtom(atoms[m])
           /\ StandsAlone(atoms, i, j)
    \/ \E i \in 1..Len(atoms) :
           /\ atoms[i] = "Truncate"
           /\ StandsAlone(atoms, i, i)

\* the text holds DELETE FROM or UPDATE, as words, and later WHERE 1=1
HasBlanketMutation(atoms) ==
    \E i \in 1..Len(atoms) : \E j \in (i + 1)..Len(atoms) :
        /\ atoms[i] \in {"delete from", "Update"}
        /\ StandsAlone(atoms, i, i)
        /\ atoms[j] = "where 1=1"

\* the same, with no line feed between the verb and the WHERE clause
HasBlanketMutationOnOneLine(atoms) ==
    \E i \in 1..Len(atoms) : \E j \in (i + 1)..Len(atoms) :
        /\ atoms[i] \in {"delete from", "Update"}
        /\ StandsAlone(atoms, i, i)
        /\ atoms[j] = "where 1=1"
        /\ \A m \in (i + 1)..(j - 1) : atoms[m] # "\n"

\* the text holds the name of a dangerous procedure
HasDangerousProc(atoms) ==
    \E i \in 1..Len(atoms) : atoms[i] \in {"xp_cmdshell", "XP_CMDSHELL", "Sp_ExecuteSql"}

\* the text holds two consecutive hyphens
HasCommentMarker(atoms) ==
    \E i \in 1..(Len(atoms) - 1) : atoms[i] = "-" /\ atoms[i + 1] = "-"

VInit ==
    /\ v_class \in Classes
    /\ v_atoms = <<>>
    /\ v_verdict = "pending"
    /\ Config = [MAX_ROWS |-> 1, conn_str_ok |-> TRUE]
    /\ req = <<>>
    /\ conns = <<>>
    /\ fs = [dir |-> FALSE, file |-> [exists |-> FALSE, lines |-> <<>>]]
    /\ calls = 0

\* the caller composes the statement text
VAppend ==
    /\ v_verdict = "pending"
    /\ Len(v_atoms) < MaxAtoms
    /\ \E a \in ClassAtoms(v_class) : v_atoms' = Append(v_atoms, a)
    /\ UNCHANGED <<v_class, v_verdict>>
    /\ UNCHANGED p_vars

\* validate_sql_query(sql) is called on the text
VValidate ==
    /\ v_verdict = "pending"
    /\ v_verdict' = IF validate_sql_query(Flatten(v_atoms)) THEN "accepted" ELSE "rejected"
    /\ UNCHANGED <<v_class, v_atoms>>
    /\ UNCHANGED p_vars

VNext == VAppend \/ VValidate

SpecV == VInit /\ [][VNext]_vars

\* validator runs on texts in mixed letter case, with a fragment of every rule
CaseInit ==
    /\ v_class = "case"
    /\ v_atoms = <<>>
    /\ v_verdict = "pending"
    /\ Config = [MAX_ROWS |-> 1, conn_str_ok |-> TRUE]
    /\ req = <<>>
    /\ conns = <<>>
    /\ fs = [dir |-> FALSE, file |-> [exists |-> FALSE, lines |-> <<>>]]
    /\ calls = 0

SpecCase == CaseInit /\ [][VNext]_vars

(***************************************************************************)
(* The request pipeline: the four tools that accept caller SQL, each a     *)
(* sequence of steps on its request slot.                                  *)
(***************************************************************************)
NumProcs == 2        \* request slots
MaxCalls == 2        \* tool calls in one run
MaxRows == 3         \* rows a statement produces, or affects, at most
MaxCap == 2          \* the largest max_rows a caller passes
MaxDefaultCap == 2   \* the largest configured Config.MAX_ROWS

Procs == 1..NumProcs
ConnIds == 1..MaxCalls

Min(a, b) == IF a <= b THEN a ELSE b
Max(a, b) == IF a >= b THEN a ELSE b

\* the statements callers send
SQL_SELECT == <<"S","E","L","E","C","T"," ","a">>
SQL_select == <<" ","s","e","l","e","c","t"," ","a">>
SQL_SELECTX == <<"S","E","L","E","C","T","X">>
SQL_SELECT_COMMENT == <<"S","E","L","E","C","T"," ","1","-","-">>
SQL_DROP == <<"D","R","O","P"," ","T","A","B","L","E"," ","t">>
SQL_DELETE == <<"d","e","l","e","t","e"," ","f","r","o","m"," ","t">>
SQL_DELETE_ALL == <<"D","E","L","E","T","E"," ","F","R","O","M"," ","t"," ",
                    "W","H","E","R","E"," ","1","=","1">>
SQL_INSERT == <<"I","n","s","e","r","t"," ","t">>
SQL_EXEC == <<"E","X","E","C"," ","p">>
SQL_UPDATETEXT == <<"U","P","D","A","T","E","T","E","X","T"," ","t">>

Statements == {SQL_SELECT, SQL_select, SQL_SELECTX, SQL_SELECT_COMMENT, SQL_DROP,
               SQL_DELETE, SQL_DELETE_ALL, SQL_INSERT, SQL_EXEC, SQL_UPDATETEXT}

\* those of them that are SELECT statements
SelectStatements == {SQL_SELECT, SQL_select}

Tools == {"query_sql", "execute_dml", "export_to_csv", "query_to_csv"}

\* the catalog tools that pass max_rows=100 to format_query_result
MONITOR_MAX_ROWS == 100
MonitorTools == {"get_active_sessions", "get_long_running_queries",
                 "get_blocking_sessions"}

\* the catalog tools that pass max_rows=None to format_query_result
ListingTools == {"list_tables", "describe_table", "list_indexes",
                 "get_index_fragmentation", "get_table_statistics",
                 "get_database_info", "get_backup_history", "get_database_files",
                 "get_wait_statistics"}

\* the tools that run a query of their own over the system catalog
CatalogTools == MonitorTools \cup ListingTools

\* Optional[int]: None, or an integer
NoMaxRows == [none |-> TRUE, val |-> 0]
MaxRowsOf(n) == [none |-> FALSE, val |-> n]

\* the max_rows arguments callers pass to each tool
MaxRowsArgs(op) ==
    CASE op = "query_sql"     -> {NoMaxRows} \cup {MaxRowsOf(n) : n \in 0..MaxCap}
      [] op = "export_to_csv" -> {NoMaxRows} \cup {MaxRowsOf(n) : n \in 0..MaxCap}
      [] op = "query_to_csv"  -> {NoMaxRows} \cup {MaxRowsOf(n) : n \in 0..MaxCap}
      [] op = "execute_dml"   -> {NoMaxRows}

\* the max_rows a catalog tool passes to format_query_result
catalog_max_rows(op) ==
    IF op \in MonitorTools THEN MaxRowsOf(MONITOR_MAX_ROWS) ELSE NoMaxRows

\* the sizes of the result sets the catalog queries produce
CatalogRowCounts(op) ==
    IF op \in MonitorTools
    THEN (0..MaxRows) \cup {MONITOR_MAX_ROWS + k - 1 : k \in 0..MaxRows}
    ELSE 0..MaxRows

\* a JSON response: the keys it carries and the values of those the claims read
NoResp == [keys |-> {}, error |-> "", success |-> FALSE, rows |-> <<>>, row_count |-> 0,
           truncated |-> FALSE, rows_affected |-> 0, rows_exported |-> 0]

\* {"error": ..., "timestamp": ...}
ErrorResp(msg) == [NoResp EXCEPT !.keys = {"error", "timestamp"}, !.error = msg]

\* a request slot with no call running
Idle == [op |-> "", sql |-> <<>>, max_rows |-> NoMaxRows, pc |-> "idle",
         verdict |-> "pending", conn |-> 0, exc |-> "", escaped |-> FALSE,
         events |-> <<>>, resp |-> NoResp, description |-> "unset", source |-> <<>>,
         rowcount |-> 0, rows_affected |-> 0, pending |-> <<>>, rows_written |-> 0]

\* a connection id not handed out yet
NoConn == [state |-> "unused", owner |-> 0, stmts |-> 0, reported |-> 0,
           commits |-> 0, closes |-> 0]

NoFile == [exists |-> FALSE, lines |-> <<>>]
\* a file left by an earlier export: line 0 is a header, -1 a line of other data
OldFile == [exists |-> TRUE, lines |-> <<0, -1>>]

Init ==
    /\ v_class = "drop"
    /\ v_atoms = <<>>
    /\ v_verdict = "pending"
    /\ Config \in [MAX_ROWS : 1..MaxDefaultCap, conn_str_ok : BOOLEAN]
    /\ req = [p \in Procs |-> Idle]
    /\ conns = [c \in ConnIds |-> NoConn]
    /\ fs \in {[dir |-> FALSE, file |-> NoFile], [dir |-> TRUE, file |-> NoFile],
               [dir |-> TRUE, file |-> OldFile]}
    /\ calls = 0

\* a caller invokes a tool
Call(p) ==
    /\ req[p].pc = "idle"
    /\ calls < MaxCalls
    /\ calls' = calls + 1
    /\ \E op \in Tools : \E sql \in Statements : \E mr \in MaxRowsArgs(op) :
           req' = [req EXCEPT ![p] =
                      [Idle EXCEPT !.op = op, !.sql = sql, !.max_rows = mr,
                                   !.pc = "validate"]]
    /\ UNCHANGED <<Config, conns, fs, v_vars>>

\* a caller invokes a catalog tool, which goes straight to the connection
catalog_call(p) ==
    /\ req[p].pc = "idle"
    /\ calls < MaxCalls
    /\ calls' = calls + 1
    /\ \E op \in CatalogTools :
           req' = [req EXCEPT ![p] = [Idle EXCEPT !.op = op, !.pc = "connect"]]
    /\ UNCHANGED <<Config, conns, fs, v_vars>>

\* the validator's verdict is recorded, but the tool goes on whatever it is
Validate_NoEarlyReturn(p) ==
    /\ req[p].pc = "validate"
    /\ LET r == req[p] IN
       req' = [req EXCEPT ![p] =
                  [r EXCEPT !.verdict = IF validate_sql_query(r.sql)
                                        THEN "accepted" ELSE "rejected",
                            !.pc = "classify",
                            !.events = Append(@, "validate")]]
    /\ UNCHANGED <<Config, conns, fs, calls, v_vars>>

\* if not validate_sql_query(sql): return the error envelope
Validate(p) ==
    /\ req[p].pc = "validate"
    /\ LET r == req[p] IN
       req' = [req EXCEPT ![p] =
                  IF validate_sql_query(r.sql)
                  THEN [r EXCEPT !.verdict = "accepted", !.pc = "classify",
                                 !.events = Append(@, "validate")]
                  ELSE [r EXCEPT !.verdict = "rejected", !.pc = "return",
                                 !.events = Append(@, "validate"),
                                 !.resp = ErrorResp("Query validation failed")]]
    /\ UNCHANGED <<Config, conns, fs, calls, v_vars>>

SELECT == <<"S","E","L","E","C","T">>
allowed_commands == << <<"I","N","S","E","R","T">>, <<"U","P","D","A","T","E">>,
                       <<"D","E","L","E","T","E">> >>

\* the statement passes the tool's check of its leading keyword
IntentAllowed(op, sql) ==
    IF op = "execute_dml"
    THEN \E k \in 1..Len(allowed_commands) :
             StartsWith(Upper(Strip(sql)), allowed_commands[k])
    ELSE StartsWith(Upper(Strip(sql)), SELECT)

\* if not sql.strip().upper().startswith(...): return the error envelope
Classify(p) ==
    /\ req[p].pc = "classify"
    /\ LET r == req[p] IN
       req' = [req EXCEPT ![p] =
                  IF IntentAllowed(r.op, r.sql)
                  THEN [r EXCEPT !.pc = IF r.op = "export_to_csv" THEN "mkdir" ELSE "connect",
                                 !.events = Append(@, "classify")]
                  ELSE [r EXCEPT !.pc = "return",
                                 !.events = Append(@, "classify"),
                                 !.resp = ErrorResp("Only ... are allowed")]]
    /\ UNCHANGED <<Config, conns, fs, calls, v_vars>>

\* the destination file is opened, and the header written, before the connection is
\* asked for
MakeDirs_OpeningFile(p) ==
    /\ req[p].pc = "mkdir"
    /\ LET r == req[p] IN
       \/ /\ fs.dir
          /\ fs' = [fs EXCEPT !.file = [exists |-> TRUE, lines |-> <<0>>]]
          /\ req' = [req EXCEPT ![p] =
                        [r EXCEPT !.pc = "connect", !.events = Append(@, "open")]]
       \/ /\ ~fs.dir
          /\ fs' = [dir |-> TRUE, file |-> [exists |-> TRUE, lines |-> <<0>>]]
          /\ req' = [req EXCEPT ![p] =
                        [r EXCEPT !.pc = "connect",
                                  !.events = Append(@, "mkdir") \o <<"open">>]]
       \/ /\ ~fs.dir
          /\ fs' = fs
          /\ req' = [req EXCEPT ![p] =
                        [r EXCEPT !.pc = "return",
                                  !.resp = ErrorResp("Invalid file path")]]
    /\ UNCHANGED <<Config, conns, calls, v_vars>>

\* export_to_csv: the destination's directory is created when it is missing
MakeDirs(p) ==
    /\ req[p].pc = "mkdir"
    /\ LET r == req[p] IN
       \/ /\ fs.dir
          /\ fs' = fs
          /\ req' = [req EXCEPT ![p] = [r EXCEPT !.pc = "connect"]]
       \/ /\ ~fs.dir          \* os.makedirs succeeds
          /\ fs' = [fs EXCEPT !.dir = TRUE]
          /\ req' = [req EXCEPT ![p] =
                        [r EXCEPT !.pc = "connect", !.events = Append(@, "mkdir")]]
       \/ /\ ~fs.dir          \* os.makedirs raises
          /\ fs' = fs
          /\ req' = [req EXCEPT ![p] =
                        [r EXCEPT !.pc = "return",
                                  !.resp = ErrorResp("Invalid file path")]]
    /\ UNCHANGED <<Config, conns, calls, v_vars>>

\* one connection is shared: a request gets the connection that is already open
FreshConn_Shared ==
    IF \E c \in ConnIds : conns[c].state = "open"
    THEN CHOOSE c \in ConnIds : conns[c].state = "open"
    ELSE CHOOSE c \in ConnIds :
             /\ conns[c].state = "unused"
             /\ \A d \in 1..(c - 1) : conns[d].state # "unused"

\* the id under which the next connection is opened
FreshConn == CHOOSE c \in ConnIds :
                 /\ conns[c].state = "unused"
                 /\ \A d \in 1..(c - 1) : conns[d].state # "unused"

\* get_db_connection, up to its yield
Connect(p) ==
    /\ req[p].pc = "connect"
    /\ LET r == req[p] IN
       IF ~Config.conn_str_ok
       THEN \* get_connection_string raises ValueError; conn is still None
            /\ req' = [req EXCEPT ![p] = [r EXCEPT !.exc = "ValueError", !.pc = "handler"]]
            /\ conns' = conns
       ELSE \/ \* pyodbc.connect raises; conn is still None
               /\ req' = [req EXCEPT ![p] =
                             [r EXCEPT !.exc = "pyodbc.Error", !.pc = "handler"]]
               /\ conns' = conns
            \/ \* pyodbc.connect returns a connection, which is yielded
               LET c == FreshConn IN
               /\ conns' = [conns EXCEPT ![c] = [NoConn EXCEPT !.state = "open", !.owner = p]]
               /\ req' = [req EXCEPT ![p] =
                             [r EXCEPT !.conn = c, !.pc = "execute",
                                       !.events = Append(@, "acquire")]]
    /\ UNCHANGED <<Config, fs, calls, v_vars>>

\* the connection is closed on the way out only when the block ended normally
Close_NoFinally(p) ==
    /\ req[p].pc = "close"
    /\ LET r == req[p]
           c == r.conn
       IN  IF r.exc = ""
           THEN /\ conns' = [conns EXCEPT ![c].state = "closed", ![c].closes = @ + 1]
                /\ req' = [req EXCEPT ![p] =
                              [r EXCEPT !.pc = "return", !.events = Append(@, "close")]]
           ELSE /\ conns' = conns
                /\ req' = [req EXCEPT ![p] = [r EXCEPT !.pc = "handler"]]
    /\ UNCHANGED <<Config, fs, calls, v_vars>>

\* the connection commits on the way out, as a transaction scope would
Close_Committing(p) ==
    /\ req[p].pc = "close"
    /\ LET r == req[p]
           c == r.conn
       IN  /\ conns' = [conns EXCEPT ![c].state = "closed", ![c].closes = @ + 1,
                                     ![c].commits = @ + 1]
           /\ req' = [req EXCEPT ![p] =
                         [r EXCEPT !.pc = IF r.exc = "" THEN "return" ELSE "handler",
                                   !.events = Append(@, "close")]]
    /\ UNCHANGED <<Config, fs, calls, v_vars>>

\* get_db_connection, after its yield: finally: if conn: conn.close()
Close(p) ==
    /\ req[p].pc = "close"
    /\ LET r == req[p]
           c == r.conn
       IN  /\ conns' = [conns EXCEPT ![c].state = "closed", ![c].closes = @ + 1]
           /\ req' = [req EXCEPT ![p] =
                         [r EXCEPT !.pc = IF r.exc = "" THEN "return" ELSE "handler",
                                   !.events = Append(@, "close")]]
    /\ UNCHANGED <<Config, fs, calls, v_vars>>

\* the exception classes a tool's except clauses catch
Catches(op, exc) ==
    CASE op = "execute_dml"   -> exc = "pyodbc.Error"
      [] op = "query_sql"     -> TRUE      \* pyodbc.Error, Exception
      [] op = "export_to_csv" -> TRUE      \* pyodbc.Error, IOError, Exception
      [] op = "query_to_csv"  -> TRUE      \* pyodbc.Error, Exception
      [] op \in CatalogTools  -> exc = "pyodbc.Error"

ErrorPrefix(exc) ==
    CASE exc = "pyodbc.Error" -> "Database error"
      [] exc = "IOError"      -> "File I/O error"
      [] OTHER                -> "Unexpected error"

\* the tool runs the statement once more after the engine has raised
Handler_Retrying(p) ==
    /\ req[p].pc = "handler"
    /\ LET r == req[p] IN
       req' = [req EXCEPT ![p] =
                  IF /\ r.conn # 0
                     /\ Cardinality({i \in DOMAIN r.events :
                                         r.events[i] = "execute_error"}) = 1
                  THEN [r EXCEPT !.pc = "execute", !.exc = ""]
                  ELSE IF Catches(r.op, r.exc)
                  THEN [r EXCEPT !.pc = "return", !.resp = ErrorResp(ErrorPrefix(r.exc))]
                  ELSE [r EXCEPT !.pc = "return", !.escaped = TRUE]]
    /\ UNCHANGED <<Config, conns, fs, calls, v_vars>>

\* the tool's except clauses: the error envelope, or the exception leaves the tool
Handler(p) ==
    /\ req[p].pc = "handler"
    /\ LET r == req[p] IN
       req' = [req EXCEPT ![p] =
                  IF Catches(r.op, r.exc)
                  THEN [r EXCEPT !.pc = "return", !.resp = ErrorResp(ErrorPrefix(r.exc))]
                  ELSE [r EXCEPT !.pc = "return", !.escaped = TRUE]]
    /\ UNCHANGED <<Config, conns, fs, calls, v_vars>>

\* what is left of a closed connection once the call that opened it has returned
Released(conn) == [NoConn EXCEPT !.state = conn.state, !.owner = conn.owner,
                                 !.closes = conn.closes]

\* the caller receives the response; the call's locals, its cursor and its closed
\* connection object go out of scope, and the slot is free for the next call
Return(p) ==
    /\ req[p].pc = "return"
    /\ req' = [req EXCEPT ![p] = Idle]
    /\ conns' = [c \in ConnIds |->
                    IF c = req[p].conn /\ conns[c].state = "closed"
                    THEN Released(conns[c]) ELSE conns[c]]
    /\ UNCHANGED <<Config, fs, calls, v_vars>>

\* the rows 1..n of a result set, in the order the engine returns them
RowsUpTo(n) == [i \in 1..n |-> i]

ReadTools == {"query_sql", "export_to_csv", "query_to_csv"}

\* cursor = conn.cursor(); cursor.execute(sql)
Execute(p) ==
    /\ req[p].pc = "execute"
    /\ LET r == req[p]
           c == r.conn
       IN  \/ \* the engine raises pyodbc.Error
              /\ conns' = [conns EXCEPT ![c].stmts = @ + 1]
              /\ req' = [req EXCEPT ![p] =
                            [r EXCEPT !.exc = "pyodbc.Error", !.pc = "close",
                                      !.events = Append(@, "execute_error")]]
           \/ \* a statement with no result set: the engine reports the rows it affected
              /\ r.op \in Tools
              /\ \E n \in 0..MaxRows :
                     /\ conns' = [conns EXCEPT ![c].stmts = @ + 1, ![c].reported = n]
                     /\ req' = [req EXCEPT ![p] =
                                   [r EXCEPT !.description = "none", !.rowcount = n,
                                             !.pc = "result",
                                             !.events = Append(@, "execute")]]
           \/ \* a statement with a result set of n rows
              /\ r.op \in ReadTools
              /\ \E n \in 0..MaxRows :
                     /\ conns' = [conns EXCEPT ![c].stmts = @ + 1]
                     /\ req' = [req EXCEPT ![p] =
                                   [r EXCEPT !.description = "columns",
                                             !.source = RowsUpTo(n),
                                             !.pc = "result",
                                             !.events = Append(@, "execute")]]
           \/ \* a catalog query: a result set of n rows
              /\ r.op \in CatalogTools
              /\ \E n \in CatalogRowCounts(r.op) :
                     /\ conns' = [conns EXCEPT ![c].stmts = @ + 1]
                     /\ req' = [req EXCEPT ![p] =
                                   [r EXCEPT !.description = "columns",
                                             !.source = RowsUpTo(n),
                                             !.pc = "result",
                                             !.events = Append(@, "execute")]]
    /\ UNCHANGED <<Config, fs, calls, v_vars>>

\* rows[:n] of Python
SliceTo(rows, n) ==
    IF n >= 0 THEN SubSeq(rows, 1, Min(n, Len(rows)))
    ELSE SubSeq(rows, 1, Max(Len(rows) + n, 0))

\* "x or default" and "if x:" of Python on an Optional[int]
Truthy(mr) == ~mr.none /\ mr.val # 0

\* max_rows = max_rows or Config.MAX_ROWS
EffectiveMaxRows(max_rows) == IF Truthy(max_rows) THEN max_rows.val ELSE Config.MAX_ROWS

\* json.dumps of columns, rows[:max_rows], row_count, truncated and timestamp
format_query_result(rows, max_rows) ==
    [NoResp EXCEPT !.keys = {"columns", "rows", "row_count", "truncated", "timestamp"},
                   !.rows = SliceTo(rows, EffectiveMaxRows(max_rows)),
                   !.row_count = Len(rows),
                   !.truncated = Len(rows) > EffectiveMaxRows(max_rows)]

\* query_sql commits a statement that produced no result set before it answers
query_sql_result_Committing(p) ==
    /\ req[p].pc = "result"
    /\ req[p].op = "query_sql"
    /\ LET r == req[p] IN
       \/ /\ r.description = "none"
          /\ conns' = [conns EXCEPT ![r.conn].commits = @ + 1]
          /\ req' = [req EXCEPT ![p] =
                        [r EXCEPT !.resp = [NoResp EXCEPT !.keys = {"message"}],
                                  !.pc = "close",
                                  !.events = Append(@, "commit") \o <<"respond">>]]
       \/ /\ r.description = "columns"
          /\ conns' = conns
          /\ req' = [req EXCEPT ![p] = [r EXCEPT !.exc = "pyodbc.Error", !.pc = "close"]]
       \/ /\ r.description = "columns"
          /\ conns' = conns
          /\ req' = [req EXCEPT ![p] =
                        [r EXCEPT !.resp = format_query_result(r.source, r.max_rows),
                                  !.pc = "close",
                                  !.events = Append(@, "respond")]]
    /\ UNCHANGED <<Config, fs, calls, v_vars>>

\* query_sql, after cursor.execute: the no-result message, or fetchall and the envelope
query_sql_result(p) ==
    /\ req[p].pc = "result"
    /\ req[p].op = "query_sql"
    /\ LET r == req[p] IN
       \/ /\ r.description = "none"
          /\ req' = [req EXCEPT ![p] =
                        [r EXCEPT !.resp = [NoResp EXCEPT !.keys = {"message"}],
                                  !.pc = "close",
                                  !.events = Append(@, "respond")]]
       \/ /\ r.description = "columns"       \* cursor.fetchall() raises
          /\ req' = [req EXCEPT ![p] = [r EXCEPT !.exc = "pyodbc.Error", !.pc = "close"]]
       \/ /\ r.description = "columns"
          /\ req' = [req EXCEPT ![p] =
                        [r EXCEPT !.resp = format_query_result(r.source, r.max_rows),
                                  !.pc = "close",
                                  !.events = Append(@, "respond")]]
    /\ UNCHANGED <<Config, conns, fs, calls, v_vars>>

\* a catalog tool, after cursor.execute: fetchall and the envelope
catalog_result(p) ==
    /\ req[p].pc = "result"
    /\ req[p].op \in CatalogTools
    /\ LET r == req[p] IN
       \/ \* cursor.fetchall() raises
          req' = [req EXCEPT ![p] = [r EXCEPT !.exc = "pyodbc.Error", !.pc = "close"]]
       \/ req' = [req EXCEPT ![p] =
                     [r EXCEPT !.resp = format_query_result(r.source,
                                                            catalog_max_rows(r.op)),
                               !.pc = "close",
                               !.events = Append(@, "respond")]]
    /\ UNCHANGED <<Config, conns, fs, calls, v_vars>>

\* the transaction is left uncommitted
execute_dml_commit_Skipped(p) ==
    /\ req[p].pc = "result"
    /\ req[p].op = "execute_dml"
    /\ req' = [req EXCEPT ![p] =
                  [req[p] EXCEPT !.rows_affected = req[p].rowcount, !.pc = "respond"]]
    /\ UNCHANGED <<Config, conns, fs, calls, v_vars>>

\* execute_dml: rows_affected = cursor.rowcount; conn.commit()
execute_dml_commit(p) ==
    /\ req[p].pc = "result"
    /\ req[p].op = "execute_dml"
    /\ LET r == req[p]
           c == r.conn
       IN  \/ /\ conns' = [conns EXCEPT ![c].commits = @ + 1]
              /\ req' = [req EXCEPT ![p] =
                            [r EXCEPT !.rows_affected = r.rowcount, !.pc = "respond",
                                      !.events = Append(@, "commit")]]
           \/ \* conn.commit() raises
              /\ conns' = conns
              /\ req' = [req EXCEPT ![p] =
                            [r EXCEPT !.rows_affected = r.rowcount,
                                      !.exc = "pyodbc.Error", !.pc = "close"]]
    /\ UNCHANGED <<Config, fs, calls, v_vars>>

\* the envelope reports one affected row whatever the engine reported
dml_success_One(rows_affected) ==
    [NoResp EXCEPT !.keys = {"success", "rows_affected", "timestamp"},
                   !.success = TRUE, !.rows_affected = 1]

\* {"success": True, "rows_affected": rows_affected, "timestamp": ...}
dml_success(rows_affected) ==
    [NoResp EXCEPT !.keys = {"success", "rows_affected", "timestamp"},
                   !.success = TRUE, !.rows_affected = rows_affected]

\* execute_dml: the success envelope is built
execute_dml_respond(p) ==
    /\ req[p].pc = "respond"
    /\ req[p].op = "execute_dml"
    /\ req' = [req EXCEPT ![p] =
                  [req[p] EXCEPT !.resp = dml_success(req[p].rows_affected),
                                 !.pc = "close",
                                 !.events = Append(@, "respond")]]
    /\ UNCHANGED <<Config, conns, fs, calls, v_vars>>

\* cursor.fetchmany(n), n >= 0: the next n rows at most
fetchmany(source, n) == SubSeq(source, 1, Min(n, Len(source)))

\* export_to_csv, after cursor.execute: no result set, or the file is opened for
\* writing (created or truncated), the header written and the rows to write chosen
export_open(p) ==
    /\ req[p].pc = "result"
    /\ req[p].op = "export_to_csv"
    /\ LET r == req[p] IN
       \/ /\ r.description = "none"
          /\ fs' = fs
          /\ req' = [req EXCEPT ![p] =
                        [r EXCEPT !.resp = ErrorResp("Query returned no results to export"),
                                  !.pc = "close",
                                  !.events = Append(@, "respond")]]
       \/ /\ r.description = "columns"       \* open() raises
          /\ fs' = fs
          /\ req' = [req EXCEPT ![p] = [r EXCEPT !.exc = "IOError", !.pc = "close"]]
       \/ /\ r.description = "columns"       \* if max_rows: cursor.fetchmany raises
          /\ Truthy(r.max_rows)
          /\ fs' = [fs EXCEPT !.file = [exists |-> TRUE, lines |-> <<0>>]]
          /\ req' = [req EXCEPT ![p] =
                        [r EXCEPT !.exc = "pyodbc.Error", !.pc = "close",
                                  !.events = Append(@, "open")]]
       \/ /\ r.description = "columns"
          /\ fs' = [fs EXCEPT !.file = [exists |-> TRUE, lines |-> <<0>>]]
          /\ req' = [req EXCEPT ![p] =
                        [r EXCEPT !.pending = IF Truthy(r.max_rows)
                                              THEN fetchmany(r.source, r.max_rows.val)
                                              ELSE r.source,
                                  !.pc = "write",
                                  !.events = Append(@, "open")]]
    /\ UNCHANGED <<Config, conns, calls, v_vars>>

\* the file is deleted when a row cannot be fetched or written
export_write_Cleanup(p) ==
    /\ req[p].pc = "write"
    /\ req[p].pending # <<>>
    /\ LET r == req[p] IN
       \/ /\ fs' = [fs EXCEPT !.file.lines = Append(@, Head(r.pending))]
          /\ req' = [req EXCEPT ![p] =
                        [r EXCEPT !.pending = Tail(@), !.rows_written = @ + 1]]
       \/ /\ fs' = [fs EXCEPT !.file = NoFile]
          /\ req' = [req EXCEPT ![p] = [r EXCEPT !.exc = "IOError", !.pc = "close"]]
       \/ /\ ~Truthy(r.max_rows)
          /\ fs' = [fs EXCEPT !.file = NoFile]
          /\ req' = [req EXCEPT ![p] = [r EXCEPT !.exc = "pyodbc.Error", !.pc = "close"]]
    /\ UNCHANGED <<Config, conns, calls, v_vars>>

\* export_to_csv: one turn of the loop that writes the rows
export_write(p) ==
    /\ req[p].pc = "write"
    /\ req[p].pending # <<>>
    /\ LET r == req[p] IN
       \/ /\ fs' = [fs EXCEPT !.file.lines = Append(@, Head(r.pending))]
          /\ req' = [req EXCEPT ![p] =
                        [r EXCEPT !.pending = Tail(@), !.rows_written = @ + 1]]
       \/ /\ fs' = fs                        \* writer.writerow raises
          /\ req' = [req EXCEPT ![p] = [r EXCEPT !.exc = "IOError", !.pc = "close"]]
       \/ /\ ~Truthy(r.max_rows)             \* for row in cursor: the fetch raises
          /\ fs' = fs
          /\ req' = [req EXCEPT ![p] = [r EXCEPT !.exc = "pyodbc.Error", !.pc = "close"]]
    /\ UNCHANGED <<Config, conns, calls, v_vars>>

\* export_to_csv: the file is closed and the success envelope built
export_finish(p) ==
    /\ req[p].pc = "write"
    /\ req[p].pending = <<>>
    /\ LET r == req[p] IN
       req' = [req EXCEPT ![p] =
                  [r EXCEPT !.resp = [NoResp EXCEPT
                                         !.keys = {"success", "file_path", "rows_exported",
                                                   "file_size_bytes", "file_size_mb",
                                                   "columns", "timestamp"},
                                         !.success = TRUE,
                                         !.rows_exported = r.rows_written],
                            !.pc = "close",
                            !.events = Append(@, "respond")]]
    /\ UNCHANGED <<Config, conns, fs, calls, v_vars>>

\* query_to_csv, after cursor.execute: no result set, or the CSV text and the envelope
query_to_csv_result(p) ==
    /\ req[p].pc = "result"
    /\ req[p].op = "query_to_csv"
    /\ LET r == req[p] IN
       \/ /\ r.description = "none"
          /\ req' = [req EXCEPT ![p] =
                        [r EXCEPT !.resp = ErrorResp("Query returned no results to convert to CSV"),
                                  !.pc = "close",
                                  !.events = Append(@, "respond")]]
       \/ /\ r.description = "columns"       \* max_rows is None: fetchmany(None), and
          /\ r.max_rows.none                 \* rows_written >= None, raise TypeError
          /\ req' = [req EXCEPT ![p] = [r EXCEPT !.exc = "TypeError", !.pc = "close"]]
       \/ /\ r.description = "columns"       \* cursor.fetchmany raises
          /\ ~r.max_rows.none
          /\ req' = [req EXCEPT ![p] = [r EXCEPT !.exc = "pyodbc.Error", !.pc = "close"]]
       \/ /\ r.description = "columns"
          /\ ~r.max_rows.none
          /\ LET rows == fetchmany(r.source, r.max_rows.val) IN
             req' = [req EXCEPT ![p] =
                        [r EXCEPT !.rows_written = Len(rows),
                                  !.resp = [NoResp EXCEPT
                                               !.keys = {"success", "csv_content", "rows",
                                                         "columns", "truncated", "timestamp",
                                                         "instructions"},
                                               !.success = TRUE,
                                               !.rows = rows,
                                               !.row_count = Len(rows),
                                               !.truncated = Len(rows) >= r.max_rows.val],
                                  !.pc = "close",
                                  !.events = Append(@, "respond")]]
    /\ UNCHANGED <<Config, conns, fs, calls, v_vars>>

\* one step of the call in slot p
Step(p) ==
    \/ Call(p)
    \/ catalog_call(p)
    \/ Validate(p)
    \/ Classify(p)
    \/ MakeDirs(p)
    \/ Connect(p)
    \/ Execute(p)
    \/ query_sql_result(p)
    \/ execute_dml_commit(p)
    \/ execute_dml_respond(p)
    \/ export_open(p)
    \/ export_write(p)
    \/ export_finish(p)
    \/ query_to_csv_result(p)
    \/ catalog_result(p)
    \/ Close(p)
    \/ Handler(p)
    \/ Return(p)

\* requests are served one at a time, in slot 1
Next == Step(1)

Spec == Init /\ [][Next]_vars

\* a caller exports a statement to the file (slot 1) and asks for its CSV text (slot 2)
PairCall(p) ==
    /\ req[p].pc = "idle"
    /\ IF p = 1 THEN req[2].pc = "idle"
                ELSE req[1].pc = "return" /\ req[1].resp.success
    /\ calls < MaxCalls
    /\ calls' = calls + 1
    /\ LET op == IF p = 1 THEN "export_to_csv" ELSE "query_to_csv" IN
       \E sql \in SelectStatements \cup {SQL_DROP} :
           \E mr \in MaxRowsArgs(op) :
               req' = [req EXCEPT ![p] =
                          [Idle EXCEPT !.op = op, !.sql = sql, !.max_rows = mr,
                                       !.pc = "validate"]]
    /\ UNCHANGED <<Config, conns, fs, v_vars>>

PairStep(p) ==
    \/ PairCall(p)
    \/ Validate(p)
    \/ Classify(p)
    \/ MakeDirs(p)
    \/ Connect(p)
    \/ Execute(p)
    \/ export_open(p)
    \/ export_write(p)
    \/ export_finish(p)
    \/ query_to_csv_result(p)
    \/ Close(p)
    \/ Handler(p)
    \/ Return(p)

\* the export is asked for first, the CSV text once it has succeeded and while its
\* response is held
PairNext == PairStep(1) \/ PairStep(2)

SpecPair == Init /\ [][PairNext]_vars

\* the state after start-up of a server whose configuration lets it connect
ConcInit ==
    /\ Init
    /\ Config.conn_str_ok
    /\ fs = [dir |-> TRUE, file |-> NoFile]

\* a caller invokes query_sql or execute_dml in a free slot
ConcCall(p) ==
    /\ req[p].pc = "idle"
    /\ calls < MaxCalls
    /\ calls' = calls + 1
    /\ \E op \in {"query_sql", "execute_dml"} :
           LET sql == IF op = "query_sql" THEN SQL_SELECT ELSE SQL_INSERT IN
           req' = [req EXCEPT ![p] =
                      [Idle EXCEPT !.op = op, !.sql = sql, !.pc = "validate"]]
    /\ UNCHANGED <<Config, conns, fs, v_vars>>

ConcStep(p) ==
    \/ ConcCall(p)
    \/ Validate(p)
    \/ Classify(p)
    \/ Connect(p)
    \/ Execute(p)
    \/ query_sql_result(p)
    \/ execute_dml_commit(p)
    \/ execute_dml_respond(p)
    \/ Close(p)
    \/ Handler(p)
    \/ Return(p)

\* two requests at a time run concurrently, their steps interleaved in any order
ConcNext == ConcStep(1) \/ ConcStep(2)

SpecConc == ConcInit /\ [][ConcNext]_vars

(***************************************************************************)
(* Claims about validate_sql_query, checked under SpecV.                   *)
(***************************************************************************)

\* C2 (as claimed): every text that holds xp_cmdshell or sp_executesql, in any letter
\* case, is rejected by validate_sql_query.
C2_DangerousProcRejected ==
    (v_verdict # "pending" /\ HasDangerousProc(v_atoms)) => v_verdict = "rejected"

\* C3 (as claimed): every text in which DELETE FROM, or UPDATE, is followed later by
\* WHERE 1=1 is rejected, whatever lies between them, line feeds included.
C3_BlanketMutationRejected ==
    (v_verdict # "pending" /\ HasBlanketMutation(v_atoms)) => v_verdict = "rejected"

\* What the code does for C3: the rule rejects when no line feed separates the verb
\* from the WHERE clause.
BlanketMutationOnOneLineRejected ==
    (v_verdict # "pending" /\ HasBlanketMutationOnOneLine(v_atoms)) => v_verdict = "rejected"

\* C4: every text that holds DROP DATABASE, DROP TABLE or TRUNCATE as words, at any
\* position and in any letter case, is rejected, whatever the text starts with.
C4_DropTruncateRejected ==
    (v_verdict # "pending" /\ HasDropOrTruncate(v_atoms)) => v_verdict = "rejected"

\* C4 witness: a rejected text that starts with SELECT and holds DROP TABLE later.
C4_Witness ==
    /\ v_verdict = "rejected"
    /\ Len(v_atoms) = 4
    /\ v_atoms[1] \in {"select", ";"}
    /\ v_atoms[2] = "Drop" /\ v_atoms[3] = "\n" /\ v_atoms[4] = "TABLE"

\* C5: every text that holds two consecutive hyphens, at any position, is rejected.
C5_CommentMarkerRejected ==
    (v_verdict # "pending" /\ HasCommentMarker(v_atoms)) => v_verdict = "rejected"

\* C5 witness: SELECT '--' is rejected although the hyphens are inside a string literal.
C5_Witness ==
    /\ v_verdict = "rejected"
    /\ v_atoms = <<"select '", "-", "-", "'">>

(***************************************************************************)
(* Claims about the request pipeline, checked under Spec.                  *)
(***************************************************************************)
Events(p) == Range(req[p].events)

IsConnEvent(e) == e \in {"execute", "execute_error", "commit", "respond", "close"}

\* C1: in every tool that accepts caller SQL, when the validator rejects the text the
\* request ends with an error envelope, and it never acquires a connection nor
\* executes a statement.
C1_RejectedNeverReachesDatabase ==
    \A p \in Procs :
        req[p].verdict = "rejected" =>
            /\ req[p].pc = "return"
            /\ req[p].resp.keys = {"error", "timestamp"}
            /\ ~req[p].escaped
            /\ req[p].conn = 0
            /\ Events(p) \cap {"acquire", "execute", "execute_error", "commit"} = {}
            /\ \A c \in ConnIds : conns[c].state = "open" => conns[c].owner # p

\* C1 witness: DROP TABLE t sent to export_to_csv has been rejected.
C1_Witness ==
    /\ req[1].op = "export_to_csv"
    /\ req[1].sql = SQL_DROP
    /\ req[1].verdict = "rejected"
    /\ req[1].resp.error = "Query validation failed"

\* C6 (as claimed): for an accepted SELECT, query_sql caps at the caller's max_rows
\* whenever one is passed, whatever its value, and at Config.MAX_ROWS otherwise:
\* rows.length is min(row_count, cap) and truncated is row_count > cap.
C6_QuerySqlCapsAtMaxRows ==
    \A p \in Procs :
        (/\ req[p].op = "query_sql"
         /\ req[p].sql \in SelectStatements
         /\ "rows" \in req[p].resp.keys) =>
            LET cap == IF req[p].max_rows.none THEN Config.MAX_ROWS
                       ELSE req[p].max_rows.val
                resp == req[p].resp
            IN  /\ Len(resp.rows) = Min(resp.row_count, cap)
                /\ resp.truncated = (resp.row_count > cap)

\* What the code does for C6: the cap is Config.MAX_ROWS also when max_rows is 0.
QuerySqlCapsAtTruthyMaxRows ==
    \A p \in Procs :
        (req[p].op = "query_sql" /\ "rows" \in req[p].resp.keys) =>
            LET cap == IF req[p].max_rows.none \/ req[p].max_rows.val = 0
                       THEN Config.MAX_ROWS ELSE req[p].max_rows.val
                resp == req[p].resp
            IN  /\ Len(resp.rows) = Min(resp.row_count, cap)
                /\ resp.truncated = (resp.row_count > cap)
                /\ resp.row_count = Len(req[p].source)

\* C7: a successful execute_dml returns success true and rows_affected equal to the
\* count the engine reported for the statement, with no rows, columns or error field.
C7_DmlSuccessEnvelope ==
    \A p \in Procs :
        (req[p].op = "execute_dml" /\ req[p].resp.success) =>
            /\ req[p].resp.keys = {"success", "rows_affected", "timestamp"}
            /\ req[p].resp.rows_affected = conns[req[p].conn].reported

\* C7 witness: the DELETE affected one row and the envelope says so.
C7_Witness ==
    /\ req[1].op = "execute_dml"
    /\ req[1].sql = SQL_DELETE
    /\ req[1].pc = "return"
    /\ req[1].resp.success
    /\ req[1].resp.rows_affected = 1
    /\ conns[req[1].conn].reported = 1

\* C8: in a successful execute_dml the statement is executed, then committed exactly
\* once on the connection that executed it, then the response is built, and only then
\* the connection is released.
C8_CommitBeforeSuccess ==
    \A p \in Procs :
        (req[p].op = "execute_dml" /\ req[p].resp.success) =>
            LET c == req[p].conn
                ev == SelectSeq(req[p].events, IsConnEvent)
            IN  /\ c # 0
                /\ conns[c].owner = p
                /\ conns[c].commits = 1
                /\ conns[c].stmts = 1
                /\ req[p].pc \in {"close", "return"}
                /\ req[p].pc = "close" =>
                       /\ ev = <<"execute", "commit", "respond">>
                       /\ conns[c].state = "open"
                /\ req[p].pc = "return" =>
                       /\ ev = <<"execute", "commit", "respond", "close">>
                       /\ conns[c].state = "closed"

\* C8 witness: a successful execute_dml is about to return.
C8_Witness ==
    /\ req[1].op = "execute_dml"
    /\ req[1].resp.success
    /\ req[1].pc = "return"
    /\ conns[req[1].conn].commits = 1

\* C9: when the engine raises while execute_dml executes the statement, commit is never
\* called on that connection and the caller gets an error envelope, not success.
C9_ExecutionErrorNeverCommits ==
    \A p \in Procs :
        (req[p].op = "execute_dml" /\ "execute_error" \in Events(p)) =>
            /\ "commit" \notin Events(p)
            /\ conns[req[p].conn].commits = 0
            /\ ~req[p].resp.success
            /\ req[p].pc = "return" =>
                   /\ req[p].resp.keys = {"error", "timestamp"}
                   /\ req[p].resp.error = "Database error"
                   /\ ~req[p].escaped

\* C9 witness: the failed execute_dml is about to return, its connection released.
C9_Witness ==
    /\ req[1].op = "execute_dml"
    /\ "execute_error" \in Events(1)
    /\ req[1].pc = "return"
    /\ conns[req[1].conn].state = "closed"

\* C10: a connection a request acquired is closed exactly once before the request
\* returns, on every exit path, and no connection stays open once the requests
\* have completed.
C10_ConnectionClosedOnce ==
    /\ \A p \in Procs :
           (req[p].conn # 0 /\ req[p].pc \in {"handler", "return"}) =>
               /\ conns[req[p].conn].state = "closed"
               /\ conns[req[p].conn].closes = 1
    /\ \A c \in ConnIds :
           /\ conns[c].closes <= 1
           /\ conns[c].state = "open" =>
                  /\ req[conns[c].owner].conn = c
                  /\ req[conns[c].owner].pc \notin {"idle", "handler", "return"}

\* C10 witness: an export failed with a file I/O error after it wrote a row, and its
\* connection is closed.
C10_Witness ==
    /\ req[1].op = "export_to_csv"
    /\ req[1].exc = "IOError"
    /\ req[1].rows_written > 0
    /\ req[1].pc = "return"
    /\ conns[req[1].conn].closes = 1

\* C11 (as claimed): in every entry point, execute_dml and the catalog tools
\* included, a call in which an exception was raised ends with an envelope whose
\* keys are error and timestamp and whose error is populated, and no exception
\* leaves the entry point.
C11_EveryFailureIsAnErrorEnvelope ==
    \A p \in Procs :
        req[p].pc = "return" =>
            /\ ~req[p].escaped
            /\ req[p].exc # "" =>
                   /\ req[p].resp.keys = {"error", "timestamp"}
                   /\ req[p].resp.error # ""

\* the first keyword token of a statement: the longest run of word characters at the
\* start of the trimmed text, in upper case
FirstKeyword(sql) ==
    LET s == Upper(Strip(sql))
        n == CHOOSE k \in 0..Len(s) :
                 /\ \A i \in 1..k : IsWord(s[i])
                 /\ k < Len(s) => ~IsWord(s[k + 1])
    IN  SubSeq(s, 1, n)

\* C12 (as claimed): query_sql, export_to_csv and query_to_csv reject, without
\* acquiring a connection, every statement whose first keyword token (trimmed,
\* case-insensitive) is not SELECT.
C12_ReadToolsRejectNonSelect ==
    \A p \in Procs :
        (req[p].op \in ReadTools /\ FirstKeyword(req[p].sql) # SELECT) =>
            /\ "acquire" \notin Events(p)
            /\ req[p].conn = 0
            /\ req[p].pc = "return" => req[p].resp.keys = {"error", "timestamp"}

ViolatesIntent(op, sql) ==
    IF op = "execute_dml"
    THEN \A k \in 1..Len(allowed_commands) : FirstKeyword(sql) # allowed_commands[k]
    ELSE FirstKeyword(sql) # SELECT

CsvContentLines(resp) == <<0>> \o resp.rows

\* C16 (as claimed): for the same accepted query over the same source rows and the
\* same row cap, the file export_to_csv wrote holds the same header and the same
\* sequence of data rows as the csv_content query_to_csv returned.
C16_FileEqualsCsvContent ==
    (/\ req[1].op = "export_to_csv" /\ req[1].pc = "return" /\ req[1].resp.success
     /\ req[2].op = "query_to_csv" /\ req[2].pc = "return" /\ req[2].resp.success
     /\ req[1].sql = req[2].sql
     /\ req[1].max_rows = req[2].max_rows
     /\ req[1].source = req[2].source) =>
        fs.file.lines = CsvContentLines(req[2].resp)

\* the tools that write a result set as CSV
ExportTools == {"export_to_csv", "query_to_csv"}

\* the number of data rows the envelope of an export tool reports
ExportedCount(p) ==
    IF req[p].op = "export_to_csv" THEN req[p].resp.rows_exported
    ELSE req[p].resp.row_count

\* the engine and the file system have served the call in slot p without an error
\* and the statement produced a result set
Served(p) ==
    /\ req[p].pc = "return"
    /\ req[p].description = "columns"
    /\ req[p].exc \notin {"pyodbc.Error", "IOError"}

\* C17 (as claimed): with max_rows None, export_to_csv and query_to_csv exhaust the
\* source and return a success envelope whose exported row count equals the source
\* row count, with truncated absent or false.
C17_NoCapExhaustsSource ==
    \A p \in Procs :
        (req[p].op \in ExportTools /\ req[p].max_rows.none /\ Served(p)) =>
            /\ req[p].resp.success
            /\ ExportedCount(p) = Len(req[p].source)
            /\ "truncated" \in req[p].resp.keys => ~req[p].resp.truncated

\* C18 (as claimed): in a successful query_to_csv, truncated is true exactly when the
\* source produced more rows than the cap; it is false when the source has exactly
\* as many rows as the cap.
C18_TruncatedIffSourceExceedsCap ==
    \A p \in Procs :
        (req[p].op = "query_to_csv" /\ req[p].pc = "return" /\ req[p].resp.success) =>
            req[p].resp.truncated = (Len(req[p].source) > req[p].max_rows.val)

\* C19 (as claimed): export_to_csv with an explicit cap N, 0 included, reports
\* rows_exported = min(N, source rows), and the file holds the header followed by
\* exactly that many data rows, in source order.
C19_ExportStopsAtCap ==
    \A p \in Procs :
        (/\ req[p].op = "export_to_csv"
         /\ ~req[p].max_rows.none
         /\ req[p].pc = "return"
         /\ req[p].resp.success) =>
            /\ req[p].resp.rows_exported = Min(req[p].max_rows.val, Len(req[p].source))
            /\ fs.file.lines =
                   <<0>> \o SubSeq(req[p].source, 1, req[p].resp.rows_exported)

\* C20 (as claimed): get_active_sessions, get_long_running_queries and
\* get_blocking_sessions return at most 100 rows and report truncated exactly when
\* more than 100 were fetched; every other catalog tool returns all the rows it
\* fetched, rows.length = row_count and truncated false, whatever their number.
C20_CatalogCapPolicy ==
    \A p \in Procs :
        (/\ req[p].op \in CatalogTools
         /\ req[p].pc = "return"
         /\ "rows" \in req[p].resp.keys) =>
            IF req[p].op \in MonitorTools
            THEN /\ Len(req[p].resp.rows) <= MONITOR_MAX_ROWS
                 /\ req[p].resp.truncated = (Len(req[p].source) > MONITOR_MAX_ROWS)
            ELSE /\ req[p].resp.rows = req[p].source
                 /\ Len(req[p].resp.rows) = req[p].resp.row_count
                 /\ ~req[p].resp.truncated

\* C21 (as claimed): every response query_sql returns is a result envelope (columns,
\* rows, row_count, truncated, timestamp) or a failure envelope (error and timestamp
\* only), also when the executed statement produces no column metadata.
C21_QuerySqlTwoShapes ==
    \A p \in Procs :
        (req[p].op = "query_sql" /\ req[p].pc = "return") =>
            \/ req[p].resp.keys = {"columns", "rows", "row_count", "truncated",
                                   "timestamp"}
            \/ req[p].resp.keys = {"error", "timestamp"}

\* how many times the call in slot p has gone through the step e
Count(p, e) == Cardinality({i \in DOMAIN req[p].events : req[p].events[i] = e})

\* the call in slot p was rejected before the data-access phase
RejectedEarly(p) ==
    \/ req[p].verdict = "rejected"
    \/ req[p].resp.error = "Only ... are allowed"

\* the call in slot p could not get a connection
ConnectFailed(p) == req[p].exc # "" /\ req[p].conn = 0

\* C22: within one request a connection is acquired at most once and a statement is
\* executed at most once; after a rejection, a connection failure or an execution
\* failure the request only closes what it holds and ends with an error, without
\* acquiring or executing again.
C22_NoRetry ==
    \A p \in Procs :
        /\ Count(p, "acquire") <= 1
        /\ Count(p, "execute") + Count(p, "execute_error") <= 1
        /\ req[p].conn # 0 => conns[req[p].conn].stmts <= 1
        /\ RejectedEarly(p) =>
               /\ req[p].pc = "return"
               /\ Count(p, "acquire") = 0
               /\ Count(p, "execute") + Count(p, "execute_error") = 0
        /\ ConnectFailed(p) =>
               /\ req[p].pc \in {"handler", "return"}
               /\ Count(p, "acquire") = 0
               /\ Count(p, "execute") + Count(p, "execute_error") = 0
        /\ Count(p, "execute_error") = 1 =>
               /\ req[p].pc \in {"close", "handler", "return"}
               /\ req[p].exc = "pyodbc.Error"
               /\ Count(p, "execute") = 0
        /\ (/\ req[p].pc = "return"
            /\ RejectedEarly(p) \/ ConnectFailed(p) \/ Count(p, "execute_error") = 1) =>
               /\ ~req[p].resp.success
               /\ req[p].resp.keys \subseteq {"error", "timestamp"}
               /\ req[p].escaped \/ req[p].resp.error # ""

\* C22 witness: the engine raised on the statement of a query_sql, which has ended
\* with the database error after one acquisition and one execution.
C22_Witness ==
    /\ req[1].op = "query_sql"
    /\ req[1].pc = "return"
    /\ Count(1, "acquire") = 1
    /\ Count(1, "execute_error") = 1
    /\ req[1].resp.error = "Database error"

\* C23: when export_to_csv fails after it has opened the file and written the header
\* (the engine or the file system raises while rows are fetched or written), the
\* request returns an error envelope, its connection is closed, and the file stays
\* in place with the header and the rows written so far.
C23_PartialFileRemains ==
    \A p \in Procs :
        (/\ req[p].op = "export_to_csv"
         /\ "open" \in Events(p)
         /\ req[p].exc \in {"pyodbc.Error", "IOError"}
         /\ req[p].pc = "return") =>
            /\ req[p].resp.keys = {"error", "timestamp"}
            /\ req[p].resp.error = ErrorPrefix(req[p].exc)
            /\ conns[req[p].conn].state = "closed"
            /\ fs.file.exists
            /\ fs.file.lines = <<0>> \o SubSeq(req[p].source, 1, req[p].rows_written)

\* C23 witness: the export failed after one row of a larger result set was written,
\* and the file holds the header and that row: a strict prefix of the source rows.
C23_Witness ==
    /\ req[1].op = "export_to_csv"
    /\ "open" \in Events(1)
    /\ req[1].pc = "return"
    /\ req[1].resp.keys = {"error", "timestamp"}
    /\ req[1].rows_written = 1
    /\ Len(req[1].source) > 1
    /\ fs.file.lines = <<0, 1>>

\* the steps of a request between the acquisition of its connection and its release
DataAccessPhase == {"execute", "result", "respond", "write", "close"}

\* C24: under any interleaving of concurrent requests, no two requests hold the same
\* connection; the statements executed, the commits and the closes on a connection
\* are exactly those of the request that acquired it; an open connection is held by
\* a request in its data-access phase, so that there are never more open connections
\* than such requests; and a commit covers the one statement its request executed.
C24_OwnConnectionOnly ==
    /\ \A p, q \in Procs :
           (p # q /\ req[p].conn # 0) => req[p].conn # req[q].conn
    /\ \A p \in Procs :
           req[p].conn # 0 =>
               LET c == conns[req[p].conn] IN
               /\ c.owner = p
               /\ c.stmts = Count(p, "execute") + Count(p, "execute_error")
               /\ c.commits = Count(p, "commit")
               /\ c.closes = Count(p, "close")
               /\ c.commits > 0 =>
                      /\ req[p].op = "execute_dml"
                      /\ c.commits = 1
                      /\ c.stmts = 1
                      /\ c.reported = req[p].rowcount
    /\ \A c \in ConnIds :
           conns[c].state = "open" =>
               /\ req[conns[c].owner].conn = c
               /\ req[conns[c].owner].pc \in DataAccessPhase
    /\ Cardinality({c \in ConnIds : conns[c].state = "open"})
           <= Cardinality({p \in Procs : req[p].pc \in DataAccessPhase})

\* C24 witness: an execute_dml has committed on its connection while a query_sql,
\* which has executed its statement, holds another open connection.
C24_Witness ==
    /\ req[1].op = "execute_dml"
    /\ Count(1, "commit") = 1
    /\ conns[req[1].conn].state = "open"
    /\ req[2].op = "query_sql"
    /\ Count(2, "execute") = 1
    /\ req[2].conn # 0
    /\ conns[req[2].conn].state = "open"
    /\ req[1].conn # req[2].conn

\* str.lower() on one character: ASCII upper-case letters are mapped, capital I with
\* dot above becomes i followed by the combining dot above, the rest is kept
LowerOf == [c \in Range(UpperCase) |->
               LowerCase[CHOOSE i \in 1..Len(UpperCase) : UpperCase[i] = c]]
LowerChar(c) ==
    IF c \in DOMAIN LowerOf THEN <<LowerOf[c]>>
    ELSE IF c = I_DOT THEN <<"i", COMBINING_DOT>>
    ELSE <<c>>

\* the lower-cased form of a text
RECURSIVE Lower(_)
Lower(s) == IF s = <<>> THEN <<>> ELSE LowerChar(Head(s)) \o Lower(Tail(s))

VerdictOf(sql) == IF validate_sql_query(sql) THEN "accepted" ELSE "rejected"

IsAscii(s) == \A i \in 1..Len(s) : s[i] \notin {I_DOT, COMBINING_DOT}

\* C25 (as claimed): the verdict the validator gave on a text is the verdict it gives
\* on the upper-cased form of the text and on its lower-cased form, for every text.
C25_VerdictIgnoresLetterCase ==
    v_verdict # "pending" =>
        /\ v_verdict = VerdictOf(Upper(Flatten(v_atoms)))
        /\ v_verdict = VerdictOf(Lower(Flatten(v_atoms)))

\* C25 (amended): for every text of ASCII characters, the verdict the validator gave
\* on the text is the verdict it gives on its upper-cased and on its lower-cased form.
C25_VerdictIgnoresAsciiLetterCase ==
    (v_verdict # "pending" /\ IsAscii(Flatten(v_atoms))) =>
        /\ v_verdict = VerdictOf(Upper(Flatten(v_atoms)))
        /\ v_verdict = VerdictOf(Lower(Flatten(v_atoms)))

\* C25 witness: a rejected ASCII text in mixed letter case, which is neither its
\* upper-cased nor its lower-cased form.
C25_Witness ==
    /\ v_verdict = "rejected"
    /\ IsAscii(Flatten(v_atoms))
    /\ Flatten(v_atoms) # Upper(Flatten(v_atoms))
    /\ Flatten(v_atoms) # Lower(Flatten(v_atoms))

\* C26: query_sql, export_to_csv, query_to_csv and the catalog tools never commit:
\* no commit is called on the connection of such a request, whatever the statement
\* produced, a statement without column metadata included.
C26_ReadToolsNeverCommit ==
    \A p \in Procs :
        req[p].op \in ReadTools \cup CatalogTools =>
            /\ Count(p, "commit") = 0
            /\ req[p].conn # 0 => conns[req[p].conn].commits = 0

\* C26 witness: query_sql ran an accepted SELECT that produced no column metadata,
\* answered, and its connection is closed without a commit.
C26_Witness ==
    /\ req[1].op = "query_sql"
    /\ req[1].sql \in SelectStatements
    /\ req[1].description = "none"
    /\ req[1].pc = "return"
    /\ conns[req[1].conn].state = "closed"
    /\ conns[req[1].conn].stmts = 1
    /\ conns[req[1].conn].commits = 0

\* how many times e occurs among the steps recorded in events
CountIn(events, e) == Cardinality({i \in DOMAIN events : events[i] = e})

\* every change of the file system is the step of an export that the request records:
\* the directory is created by the step recorded as mkdir, and the file is created,
\* truncated or written only once the request has opened it
FsChangesAreRecorded ==
    /\ fs'.dir # fs.dir =>
           \E p \in Procs :
               /\ req'[p].op = "export_to_csv"
               /\ CountIn(req[p].events, "mkdir") = 0
               /\ CountIn(req'[p].events, "mkdir") = 1
    /\ fs'.file # fs.file =>
           \E p \in Procs :
               /\ req'[p].op = "export_to_csv"
               /\ CountIn(req'[p].events, "open") = 1

\* an export rejected by the validator or by the SELECT check has neither created the
\* directory nor opened the file; one that failed to connect or to execute has not
\* opened the file
FailedExportNeverOpened ==
    \A p \in Procs :
        req[p].op = "export_to_csv" =>
            /\ RejectedEarly(p) => Count(p, "mkdir") = 0 /\ Count(p, "open") = 0
            /\ (ConnectFailed(p) \/ Count(p, "execute_error") = 1) =>
                   /\ Count(p, "open") = 0
                   /\ req[p].rows_written = 0

\* C27: an export_to_csv rejected by the validator or by the SELECT-only check leaves
\* the file system unchanged: no directory is created and the file is neither created
\* nor truncated; when the connection or the execution fails, the file is not created
\* or modified, though the missing directory may have been created.
C27_FailedExportLeavesFile ==
    [][FsChangesAreRecorded]_vars /\ []FailedExportNeverOpened

\* C27 witness: the export created the missing directory, then failed to connect, and
\* has returned with no file created.
C27_Witness ==
    /\ req[1].op = "export_to_csv"
    /\ ConnectFailed(1)
    /\ req[1].pc = "return"
    /\ Count(1, "mkdir") = 1
    /\ fs.dir
    /\ fs.file = NoFile

====
